---- MODULE Spec2Model ----
(***************************************************************************)
(* Manuscript Pilot: the view state of the panels (ChatAssistant, Editor,  *)
(* JournalFinder, FigureCheck), their event handlers and the service       *)
(* functions of geminiService.ts, as state machines.  Every handler runs   *)
(* to its first await in one step (the event loop is single-threaded);     *)
(* each resumption after an await is a step of its own.                    *)
(***************************************************************************)
EXTENDS Integers, Sequences, FiniteSets, TLC

\* ------------------------------------------------------------- bounds
MaxNow == 2        \* last value of the millisecond clock
MaxSends == 2      \* sends started per chat panel
MaxChunks == 1     \* chunk events held by a panel's open streams
MaxItems == 2      \* analyses started in the Editor
MaxMessages == 6   \* messages of the FigureCheck conversation
\* the calls of fetchGuidelines a behaviour makes
MaxFetches == 3
\* the calls of handleSelectKey that await the key dialog at a time
MaxSelects == 2

\* ------------------------------------------------------------- texts
\* A text is a sequence of characters; " " is the white space.
\* The texts a user types: empty, white space only, and one to be trimmed.
Texts == {<<>>, <<" ">>, <<" ", "a">>}
\* The texts typed into a box (the boxes start empty, and a send empties them).
TypedTexts == Texts \ {<<>>}

RECURSIVE TrimStart(_)
TrimStart(s) == IF s # <<>> /\ Head(s) = " " THEN TrimStart(Tail(s)) ELSE s

RECURSIVE TrimEnd(_)
TrimEnd(s) ==
  IF s # <<>> /\ s[Len(s)] = " " THEN TrimEnd(SubSeq(s, 1, Len(s) - 1)) ELSE s

\* String.prototype.trim
Trim(s) == TrimEnd(TrimStart(s))

\* The texts a stream chunk carries; the empty one is falsy (c.text skipped).
ChunkTexts == {<<>>, <<"x">>, <<"y">>}

\* Fixed texts of the panels, each one token.
CaInitText == <<"Hello! I am your research assistant.">>
CaErrorText == <<"I apologize, but I encountered an error processing your request. Please try again.">>
CaClearedText == <<"Conversation cleared. How can I help you now?">>

\* A chat message.  isStreaming is optional in the code: absent is FALSE.
\* src is history only: the number of the send whose placeholder this is.
Msg(id, role, text, streaming, src) ==
  [id |-> id, role |-> role, text |-> text, isStreaming |-> streaming, src |-> src]

\* A handler invocation that has returned: its locals are gone.
Returned ==
  [pc |-> "done", aiMsgId |-> 0, fullText |-> <<>>, received |-> <<>>, session |-> 0]

\* prev.map(msg => msg.id === id ? {...msg, text} : msg)
SetTextById(msgs, id, text) ==
  [k \in 1..Len(msgs) |->
     IF msgs[k].id = id THEN [msgs[k] EXCEPT !.text = text] ELSE msgs[k]]

\* prev.map(msg => msg.id === id ? {...msg, isStreaming: false} : msg)
StopStreamingById(msgs, id) ==
  [k \in 1..Len(msgs) |->
     IF msgs[k].id = id THEN [msgs[k] EXCEPT !.isStreaming = FALSE] ELSE msgs[k]]

\* ------------------------------------------------------------- state
VARIABLES
  panel,        \* the panel the run exercises (the panels share no view state)
  now,          \* Date.now(), non-decreasing
  ev,           \* history: the handler the last step ran, when it was called with
                \* a blank input or asked for a confirmation
  targetJournal,\* App: targetJournal, the prop of Editor and FigureCheck
  caMessages,   \* ChatAssistant: messages
  caInput,      \* ChatAssistant: input
  caIsLoading,  \* ChatAssistant: isLoading
  caSession,    \* ChatAssistant: chatSession.current (0 is null), by creation number
  caSends,      \* ChatAssistant: the handleSend invocations, in start order
  edInputText,  \* Editor: inputText
  edAnalysisType, \* Editor: analysisType
  edIsLoading,  \* Editor: isLoading
  edHistory,    \* Editor: history, newest first
  edChatSessions, \* Editor: chatSessions.current, item id -> session
  edChatInputs, \* Editor: chatInputs, item id -> text (absent is the empty text)
  edAnalyze,    \* Editor: the handleAnalyze invocation in flight
  edSends,      \* Editor: the handleSendChat invocations, in start order
  edItemCount,  \* history: the analyses started
  jfMode,       \* JournalFinder: mode
  jfTitle,      \* JournalFinder: title
  jfAbstract,   \* JournalFinder: abstract
  jfTargetJournal, \* JournalFinder: targetJournal (its own, not App's)
  jfSuggestions,\* JournalFinder: suggestions
  jfEvaluation, \* JournalFinder: evaluation
  jfIsLoading,  \* JournalFinder: isLoading
  jfHasSearched,\* JournalFinder: hasSearched
  jfCall,       \* JournalFinder: the handleAction invocation in flight
  fcOriginalImage, \* FigureCheck: originalImage (0 is null)
  fcLatestImage,\* FigureCheck: latestImage (0 is null)
  fcIsViewingOriginal, \* FigureCheck: isViewingOriginal
  fcImageSize,  \* FigureCheck: imageSize
  fcMessages,   \* FigureCheck: messages
  fcInput,      \* FigureCheck: input
  fcIsLoading,  \* FigureCheck: isLoading
  fcCall,       \* FigureCheck: the handleSend invocation in flight
  svCall,       \* geminiService: a call of one of its functions, and its result
  glMounted,    \* Guidelines: the component is mounted and its effect has run
  glGuidelines, \* Guidelines: guidelines
  glIsLoading,  \* Guidelines: isLoading
  glFetches,    \* Guidelines: the calls of fetchGuidelines awaiting their response
  glStarted,    \* history: the number of calls of fetchGuidelines so far
  hasApiKey,    \* App: hasApiKey
  activeTab,    \* App: activeTab
  apStudio,     \* App: window.aistudio is there
  apCheck,      \* App: where checkApiKey, started by the mount effect, stands
  apSelects,    \* App: the calls of handleSelectKey awaiting openSelectKey()
  apSelected    \* history: a call of handleSelectKey has completed

caVars == <<caMessages, caInput, caIsLoading, caSession, caSends>>
edVars == <<edInputText, edAnalysisType, edIsLoading, edHistory, edChatSessions,
            edChatInputs, edAnalyze, edSends, edItemCount>>
jfVars == <<jfMode, jfTitle, jfAbstract, jfTargetJournal, jfSuggestions, jfEvaluation,
            jfIsLoading, jfHasSearched, jfCall>>
fcVars == <<fcOriginalImage, fcLatestImage, fcIsViewingOriginal, fcImageSize,
            fcMessages, fcInput, fcIsLoading, fcCall>>
glVars == <<glMounted, glGuidelines, glIsLoading, glFetches, glStarted>>
apVars == <<hasApiKey, activeTab, apStudio, apCheck, apSelects, apSelected>>
vars == <<panel, now, ev, targetJournal, caVars, edVars, jfVars, fcVars, svCall,
          glVars, apVars>>

Event(op, flag) == [op |-> op, flag |-> flag]
NoEvent == Event("none", FALSE)

\* A text a user would call empty: nothing but white space.
IsBlank(s) == \A k \in 1..Len(s) : s[k] = " "

\* The id of the first message, 'init': no Date.now() value.
InitId == 0

\* The journals of the runs: the initial one and another preset.
Journals == {"Nature Cell Biology", "Cell"}
\* The analysis types of the runs: the initial one and another.
AnalysisTypes == {"IMPACT_POLISH", "LOGIC_CHECK"}
\* No handleAnalyze invocation in flight.
NoCall == [pc |-> "idle"]

caInit ==
  /\ caMessages = <<Msg(InitId, "model", CaInitText, FALSE, 0)>>
  /\ caInput = <<>>
  /\ caIsLoading = FALSE
  /\ caSession = 1
  /\ caSends = <<>>

edInit ==
  /\ edInputText = <<>>
  /\ edAnalysisType = "IMPACT_POLISH"
  /\ edIsLoading = FALSE
  /\ edHistory = <<>>
  /\ edChatSessions = <<>>
  /\ edChatInputs = [i \in 1..MaxNow |-> <<>>]
  /\ edAnalyze = NoCall
  /\ edSends = <<>>
  /\ edItemCount = 0

\* The values a service function returns, by their JavaScript type.
Str(s) == [type |-> "string", value |-> s]
Null == [type |-> "null", value |-> <<>>]
List(l) == [type |-> "list", value |-> l]
Obj(x) == [type |-> "object", value |-> <<x>>]

jfInit ==
  /\ jfMode = "DISCOVER"
  /\ jfTitle = <<>>
  /\ jfAbstract = <<>>
  /\ jfTargetJournal = <<>>
  /\ jfSuggestions = List(<<>>)
  /\ jfEvaluation = Null
  /\ jfIsLoading = FALSE
  /\ jfHasSearched = FALSE
  /\ jfCall = NoCall

\* No image: null.
NoImage == 0

fcInit ==
  /\ fcOriginalImage = NoImage
  /\ fcLatestImage = NoImage
  /\ fcIsViewingOriginal = FALSE
  /\ fcImageSize = "1K"
  /\ fcMessages = <<>>
  /\ fcInput = <<>>
  /\ fcIsLoading = FALSE
  /\ fcCall = NoCall

glInit ==
  /\ glMounted = FALSE
  /\ glGuidelines = Null
  /\ glIsLoading = FALSE
  /\ glFetches = <<>>
  /\ glStarted = 0

\* AppTab
AppTabs == {"EDITOR", "COVER_LETTER", "FIGURE_CHECK", "GUIDELINES", "CHAT", "JOURNAL_FINDER"}

\* The App before its mount effect has run.  The panels other than "app" are
\* those of the main interface, which is rendered once hasApiKey is true.
apInit ==
  /\ hasApiKey = (panel # "app")
  /\ activeTab = "EDITOR"
  /\ apStudio \in IF panel = "app" THEN BOOLEAN ELSE {TRUE}
  /\ apCheck = IF panel = "app" THEN "start" ELSE "done"
  /\ apSelects = 0
  /\ apSelected = FALSE

Panels == {"chat", "editor", "journal", "figure", "service", "guidelines", "app"}

Init ==
  /\ panel \in Panels
  /\ now = 1
  /\ ev = NoEvent
  /\ targetJournal = "Nature Cell Biology"
  /\ caInit
  /\ edInit
  /\ jfInit
  /\ fcInit
  /\ svCall = NoCall
  /\ glInit
  /\ apInit

\* The clock advances between events.
Tick ==
  /\ now < MaxNow
  /\ now' = now + 1
  /\ ev' = NoEvent
  /\ UNCHANGED <<panel, targetJournal, caVars, edVars, jfVars, fcVars, svCall, glVars, apVars>>

\* ------------------------------------------------------------- ChatAssistant
CaFrame ==
  panel = "chat" /\ UNCHANGED <<panel, targetJournal, edVars, jfVars, fcVars, svCall, glVars, apVars>>

\* onChange of the textarea: setInput(e.target.value)
CaSetInput(s) ==
  /\ caInput' = s
  /\ ev' = NoEvent
  /\ UNCHANGED <<now, caMessages, caIsLoading, caSession, caSends>>
  /\ CaFrame

\* if (!input.trim() || !chatSession.current) return;
CaGuard == Trim(caInput) = <<>> \/ caSession = 0

\* handleSend, to its first await
CaHandleSend ==
  /\ ev' = IF IsBlank(caInput) THEN Event("caHandleSend", TRUE) ELSE NoEvent
  /\ IF CaGuard
       THEN UNCHANGED <<now, caMessages, caInput, caIsLoading, caSession, caSends>>
       ELSE   LET userText == Trim(caInput)
                  n == Len(caSends) + 1
                  userMsg == Msg(now, "user", userText, FALSE, 0)
                  aiMsgId == now + 1
              IN /\ caMessages' = caMessages \o
                       <<userMsg, Msg(aiMsgId, "model", <<>>, TRUE, n)>>
                 /\ caInput' = <<>>
                 /\ caIsLoading' = TRUE
                 /\ caSends' = Append(caSends,
                       [pc |-> "stream", aiMsgId |-> aiMsgId, fullText |-> <<>>,
                        received |-> <<>>, session |-> caSession])
                 /\ UNCHANGED <<now, caSession>>
  /\ CaFrame

\* the Send button: disabled={isLoading || !input.trim()}
CaClickSend ==
  /\ ~(caIsLoading \/ Trim(caInput) = <<>>)
  /\ Len(caSends) < MaxSends
  /\ CaHandleSend

\* handleKeyDown: Enter without Shift calls handleSend
CaPressEnter ==
  /\ IsBlank(caInput) \/ Len(caSends) < MaxSends
  /\ CaHandleSend

RECURSIVE SumLen(_, _)
SumLen(sends, k) == IF k = 0 THEN 0 ELSE Len(sends[k].received) + SumLen(sends, k - 1)

\* history: the non-empty chunks the panel's open streams have delivered
CaChunkCount == SumLen(caSends, Len(caSends))

\* fullText += textChunk
CaAccumulate(fullText, c) == fullText \o c

\* one iteration of for await (const chunk of resultStream)
CaChunk(i, c) ==
  /\ i \in 1..Len(caSends)
  /\ caSends[i].pc = "stream"
  /\ CaChunkCount < MaxChunks
  /\ LET full == IF c # <<>> THEN CaAccumulate(caSends[i].fullText, c)
                              ELSE caSends[i].fullText
     IN /\ caSends' = [caSends EXCEPT ![i].fullText = full,
                                      ![i].received = IF c # <<>> THEN Append(@, c) ELSE @]
        /\ caMessages' = IF c # <<>>
                           THEN SetTextById(caMessages, caSends[i].aiMsgId, full)
                           ELSE caMessages
  /\ ev' = NoEvent
  /\ UNCHANGED <<now, caInput, caIsLoading, caSession>>
  /\ CaFrame

\* the stream ends: the placeholder stops streaming; finally setIsLoading(false)
CaStreamEnd(i) ==
  /\ i \in 1..Len(caSends)
  /\ caSends[i].pc = "stream"
  /\ caSends' = [caSends EXCEPT ![i] = Returned]
  /\ caMessages' = StopStreamingById(caMessages, caSends[i].aiMsgId)
  /\ caIsLoading' = FALSE
  /\ ev' = NoEvent
  /\ UNCHANGED <<now, caInput, caSession>>
  /\ CaFrame

\* sendMessageStream or the stream throws: catch appends the error message;
\* finally setIsLoading(false)
CaStreamFail(i) ==
  /\ i \in 1..Len(caSends)
  /\ caSends[i].pc = "stream"
  /\ caSends' = [caSends EXCEPT ![i] = Returned]
  /\ caMessages' = Append(caMessages, Msg(now, "model", CaErrorText, FALSE, 0))
  /\ caIsLoading' = FALSE
  /\ ev' = NoEvent
  /\ UNCHANGED <<now, caInput, caSession>>
  /\ CaFrame

\* clearChat: on confirmation a new session and a single message
CaClearChat(confirmed) ==
  /\ IF confirmed
       THEN /\ caSession' = caSession + 1
            /\ caMessages' = <<Msg(now, "model", CaClearedText, FALSE, 0)>>
       ELSE UNCHANGED <<caSession, caMessages>>
  /\ confirmed => caSession <= MaxSends
  /\ ev' = Event("caClearChat", confirmed)
  /\ UNCHANGED <<now, caInput, caIsLoading, caSends>>
  /\ CaFrame

\* ------------------------------------------------------------- geminiService
\* What the external API does with one request.
ApiOutcomes == {"text", "empty", "throw"}
\* The text of a response that has one.
ResponseText == <<"r">>
AnalyzeErrorText == <<"Error: Unable to analyze text at this time. Please check your input and try again.">>
AnalyzeNoResponseText == <<"No response generated.">>

\* analyzeManuscriptText: response.text || "No response generated."; the catch
\* returns the error text
AnalyzeManuscriptText(outcome) ==
  CASE outcome = "throw" -> AnalyzeErrorText
    [] outcome = "empty" -> AnalyzeNoResponseText
    [] OTHER -> ResponseText

\* createRefinementChat: a session is the context it was created with
CreateRefinementChat(original, result, type, journal) ==
  [original |-> original, result |-> result, type |-> type, journal |-> journal]

CoverErrorText == <<"Error generating cover letter.">>
CoverNoResponseText == <<"Could not generate cover letter.">>

\* generateCoverLetter: response.text || "Could not generate cover letter."; the
\* catch returns the error text
GenerateCoverLetter(outcome) ==
  CASE outcome = "throw" -> CoverErrorText
    [] outcome = "empty" -> CoverNoResponseText
    [] OTHER -> ResponseText

\* What the API does with a request for JSON: the text may fail to parse.
JsonOutcomes == ApiOutcomes \cup {"malformed"}

\* A mutation of GetJournalGuidelines: the failure is thrown on.
GetJournalGuidelinesNoCatch(outcome) ==
  IF outcome = "text" THEN [raised |-> FALSE, value |-> Obj(ResponseText)]
  ELSE [raised |-> outcome # "empty", value |-> Null]

\* getJournalGuidelines: JSON.parse(response.text), or null when there is no
\* text; the catch returns null
GetJournalGuidelines(outcome) ==
  [raised |-> FALSE, value |-> IF outcome = "text" THEN Obj(ResponseText) ELSE Null]

\* suggestTargetJournals: JSON.parse(response.text), or [] when there is no
\* text; the catch returns []
SuggestTargetJournals(outcome) ==
  [raised |-> FALSE, value |-> IF outcome = "text" THEN List(ResponseText) ELSE List(<<>>)]

\* evaluateJournalFit: JSON.parse(response.text), or null when there is no
\* text; the catch returns null
EvaluateJournalFit(outcome) ==
  [raised |-> FALSE, value |-> IF outcome = "text" THEN Obj(ResponseText) ELSE Null]

FLASH_IMAGE_MODEL == "gemini-2.5-flash-image"
PRO_IMAGE_MODEL == "gemini-3-pro-image-preview"
ImageSizes == {"1K", "2K"}
\* The images the API returns.
GenImages == {2, 3}

\* A mutation of FigureModel: the size alone selects the model.
FigureModelBySize(imageSize, hasInputImage) ==
  IF imageSize = "2K" THEN PRO_IMAGE_MODEL ELSE FLASH_IMAGE_MODEL

\* usePro = imageSize === '2K' && !hasInputImage
FigureModel(imageSize, hasInputImage) ==
  IF imageSize = "2K" /\ ~hasInputImage THEN PRO_IMAGE_MODEL ELSE FLASH_IMAGE_MODEL

\* What the API does with a figure request: it throws, or answers with parts
\* that may hold a text and an image.
FigureOutcomes ==
  {[throw |-> TRUE, text |-> <<>>, image |-> NoImage]}
    \cup [throw : {FALSE}, text : {<<>>, ResponseText}, image : {NoImage} \cup GenImages]

FigureErrorText ==
  <<"Error processing figure request. Please ensure you have selected a valid API key.">>
FigureAnalyzedText == <<"I analyzed the image but did not generate a modification.">>
FigureProcessedText(journal) == <<"Processed figure for ", journal, ".">>

\* A mutation of GenerateOrEditFigure: the catch answers as an empty response
\* would be answered.
GenerateOrEditFigureSilent(outcome, journal, hasInputImage) ==
  [text |-> IF outcome.text # <<>> THEN outcome.text
            ELSE IF hasInputImage /\ outcome.image = NoImage
                   THEN FigureAnalyzedText
                   ELSE FigureProcessedText(journal),
   modifiedImage |-> outcome.image]

\* generateOrEditFigure: the text and the image of the parts, a fixed text when
\* the parts hold none; the catch returns the error text and no image
GenerateOrEditFigure(outcome, journal, hasInputImage) ==
  IF outcome.throw THEN [text |-> FigureErrorText, modifiedImage |-> NoImage]
  ELSE [text |-> IF outcome.text # <<>> THEN outcome.text
                 ELSE IF hasInputImage /\ outcome.image = NoImage
                        THEN FigureAnalyzedText
                        ELSE FigureProcessedText(journal),
        modifiedImage |-> outcome.image]

\* The functions of the service that make one request.
Services == {"analyzeManuscriptText", "generateCoverLetter", "generateOrEditFigure",
             "getJournalGuidelines", "suggestTargetJournals", "evaluateJournalFit"}

\* the functions that parse the response text as JSON
JsonServices == {"getJournalGuidelines", "suggestTargetJournals", "evaluateJournalFit"}

\* the completion of a call of fn, a function other than generateOrEditFigure:
\* what it returns, or that it throws
Complete(fn, outcome) ==
  CASE fn = "analyzeManuscriptText" ->
         [raised |-> FALSE, value |-> Str(AnalyzeManuscriptText(outcome))]
    [] fn = "generateCoverLetter" ->
         [raised |-> FALSE, value |-> Str(GenerateCoverLetter(outcome))]
    [] fn = "getJournalGuidelines" -> GetJournalGuidelines(outcome)
    [] fn = "suggestTargetJournals" -> SuggestTargetJournals(outcome)
    [] OTHER -> EvaluateJournalFit(outcome)

SvFrame ==
  /\ panel = "service"
  /\ ev' = NoEvent
  /\ UNCHANGED <<panel, now, targetJournal, caVars, edVars, jfVars, fcVars, glVars, apVars>>

TEXT_MODEL == "gemini-3-pro-preview"
AspectRatios == {"1:1", "16:9"}
\* An optional string argument: "" is the absent (or empty) one.
OptionalStrings == {"", "data"}

\* hasInputImage = !!(base64Image && mimeType)
HasInputImage(base64Image, mimeType) == base64Image # "" /\ mimeType # ""

\* the request generateOrEditFigure sends: the model, whether the parts hold
\* the image as inlineData, and the config ({} or the imageConfig)
FigureRequest(imageSize, aspectRatio, base64Image, mimeType) ==
  LET hasInputImage == HasInputImage(base64Image, mimeType)
      model == FigureModel(imageSize, hasInputImage)
  IN [model |-> model,
      inlineData |-> hasInputImage,
      config |-> IF model = PRO_IMAGE_MODEL
                   THEN {[aspectRatio |-> aspectRatio, imageSize |-> imageSize]}
                   ELSE {}]

\* ------------------------------------------------------------- journal styles
\* PRESET_JOURNALS
PRESET_JOURNALS ==
  {"Nature Cell Biology",
   "Nature",
   "Science",
   "Cell",
   "Molecular Cell",
   "Nature Communications",
   "Journal of Cell Biology",
   "Current Biology",
   "eLife"}
\* names typed into the custom journal input
CustomJournals == {"JCB", "PLOS ONE"}
ServiceJournals == PRESET_JOURNALS \cup CustomJournals

\* The characters of a journal name (a string has no parts TLC can read).
Spell(name) ==
  CASE name = "Nature Cell Biology" ->
    <<"N", "a", "t", "u", "r", "e", " ", "C", "e", "l", "l", " ", "B", "i", "o", "l",
      "o", "g", "y">>
    [] name = "Nature" ->
    <<"N", "a", "t", "u", "r", "e">>
    [] name = "Science" ->
    <<"S", "c", "i", "e", "n", "c", "e">>
    [] name = "Cell" ->
    <<"C", "e", "l", "l">>
    [] name = "Molecular Cell" ->
    <<"M", "o", "l", "e", "c", "u", "l", "a", "r", " ", "C", "e", "l", "l">>
    [] name = "Nature Communications" ->
    <<"N", "a", "t", "u", "r", "e", " ", "C", "o", "m", "m", "u", "n", "i", "c", "a",
      "t", "i", "o", "n", "s">>
    [] name = "Journal of Cell Biology" ->
    <<"J", "o", "u", "r", "n", "a", "l", " ", "o", "f", " ", "C", "e", "l", "l", " ",
      "B", "i", "o", "l", "o", "g", "y">>
    [] name = "Current Biology" ->
    <<"C", "u", "r", "r", "e", "n", "t", " ", "B", "i", "o", "l", "o", "g", "y">>
    [] name = "eLife" ->
    <<"e", "L", "i", "f", "e">>
    [] name = "JCB" ->
    <<"J", "C", "B">>
    [] name = "PLOS ONE" ->
    <<"P", "L", "O", "S", " ", "O", "N", "E">>

UpperCaseLetters ==
  <<"A", "B", "C", "D", "E", "F", "G", "H", "I", "J", "K", "L", "M", "N", "O", "P",
    "Q", "R", "S", "T", "U", "V", "W", "X", "Y", "Z">>
LowerCaseLetters ==
  <<"a", "b", "c", "d", "e", "f", "g", "h", "i", "j", "k", "l", "m", "n", "o", "p",
    "q", "r", "s", "t", "u", "v", "w", "x", "y", "z">>

\* String.prototype.toLowerCase
ToLowerCase(str) ==
  [i \in 1..Len(str) |->
     IF \E k \in 1..Len(UpperCaseLetters) : UpperCaseLetters[k] = str[i]
       THEN LowerCaseLetters[CHOOSE k \in 1..Len(UpperCaseLetters) : UpperCaseLetters[k] = str[i]]
       ELSE str[i]]

\* String.prototype.includes
Includes(str, search) ==
  \E i \in 0..(Len(str) - Len(search)) : SubSeq(str, i + 1, i + Len(search)) = search

NeedleNature ==
  <<"n", "a", "t", "u", "r", "e">>
NeedleScience ==
  <<"s", "c", "i", "e", "n", "c", "e">>
NeedleCell ==
  <<"c", "e", "l", "l">>
NeedleMolecularCell ==
  <<"m", "o", "l", "e", "c", "u", "l", "a", "r", " ", "c", "e", "l", "l">>
NeedleJournalOfCellBiology ==
  <<"j", "o", "u", "r", "n", "a", "l", " ", "o", "f", " ", "c", "e", "l", "l", " ",
    "b", "i", "o", "l", "o", "g", "y">>
NeedleJcb ==
  <<"j", "c", "b">>
NeedleCurrentBiology ==
  <<"c", "u", "r", "r", "e", "n", "t", " ", "b", "i", "o", "l", "o", "g", "y">>

HighImpactStyle ==
  [focus |-> "Broad conceptual advance, accessibility to non-specialists, and 'punchy' concise writing.",
   tone |-> "Authoritative, high-impact, and devoid of unnecessary jargon."]
MechanisticStyle ==
  [focus |-> "Deep mechanistic insight, logical completeness, and a structured, comprehensive narrative.",
   tone |-> "Scholarly, detailed, and logically rigorous."]
DataDrivenStyle ==
  [focus |-> "Solid experimental data, clear cell biological mechanisms, and avoiding over-interpretation.",
   tone |-> "Measured, precise, and data-driven."]
DefaultStyle ==
  [focus |-> "Clarity, novelty within the specific field, and methodological soundness.",
   tone |-> "Professional and constructive."]
\* the style of a request that has none
NoStyle == [focus |-> "", tone |-> ""]

\* getJournalStyleParams
GetJournalStyleParams(journal) ==
  LET j == ToLowerCase(Spell(journal))
  IN IF Includes(j, NeedleNature) \/ Includes(j, NeedleScience) THEN HighImpactStyle
     ELSE IF Includes(j, NeedleCell) \/ Includes(j, NeedleMolecularCell) THEN MechanisticStyle
     ELSE IF \/ Includes(j, NeedleJournalOfCellBiology)
             \/ Includes(j, NeedleJcb)
             \/ Includes(j, NeedleCurrentBiology) THEN DataDrivenStyle
     ELSE DefaultStyle

\* the functions whose prompt holds the style of the journal
StyledServices == {"analyzeManuscriptText", "generateCoverLetter"}

\* the request of the functions that send a text; style is what the prompt
\* says of the journal
TextRequest(fn, journal) ==
  [model |-> TEXT_MODEL, inlineData |-> FALSE, config |-> {},
   style |-> IF fn \in StyledServices THEN GetJournalStyleParams(journal) ELSE NoStyle]
\* the arguments of a call that are read by generateOrEditFigure only
NoFigureArgs == [imageSize |-> "", aspectRatio |-> "", base64Image |-> "", mimeType |-> ""]

\* a panel calls fn, a function other than generateOrEditFigure
SvCall(fn, journal) ==
  /\ panel = "service"
  /\ svCall.pc # "await"
  /\ fn # "generateOrEditFigure"
  /\ svCall' = [pc |-> "await", fn |-> fn, journal |-> journal,
                hasInputImage |-> FALSE, args |-> NoFigureArgs,
                request |-> TextRequest(fn, journal)]
  /\ SvFrame

\* a panel calls generateOrEditFigure
SvCallFigure(journal, imageSize, aspectRatio, base64Image, mimeType) ==
  /\ panel = "service"
  /\ svCall.pc # "await"
  /\ svCall' = [pc |-> "await", fn |-> "generateOrEditFigure", journal |-> journal,
                hasInputImage |-> HasInputImage(base64Image, mimeType),
                args |-> [imageSize |-> imageSize, aspectRatio |-> aspectRatio,
                          base64Image |-> base64Image, mimeType |-> mimeType],
                request |-> FigureRequest(imageSize, aspectRatio, base64Image, mimeType)]
  /\ SvFrame

\* the call in flight, completed.  failed is history only: the request threw,
\* or its text did not parse.
SvDone(failed, result) ==
  [pc |-> "done", fn |-> svCall.fn, journal |-> svCall.journal,
   hasInputImage |-> svCall.hasInputImage, args |-> svCall.args,
   request |-> svCall.request, failed |-> failed, result |-> result]

\* the request of the call is answered, or fails, and the call completes
SvSettle(outcome) ==
  /\ svCall.pc = "await"
  /\ svCall.fn # "generateOrEditFigure"
  /\ outcome = "malformed" => svCall.fn \in JsonServices
  /\ svCall' = SvDone(outcome \in {"throw", "malformed"}, Complete(svCall.fn, outcome))
  /\ SvFrame

\* the same for generateOrEditFigure
SvSettleFigure(outcome) ==
  /\ svCall.pc = "await"
  /\ svCall.fn = "generateOrEditFigure"
  /\ svCall' = SvDone(outcome.throw,
                  [raised |-> FALSE,
                   value |-> Obj(GenerateOrEditFigure(outcome, svCall.journal,
                                                      svCall.hasInputImage))])
  /\ SvFrame

NextService ==
  \/ \E fn \in Services, j \in ServiceJournals : SvCall(fn, j)
  \/ \E j \in Journals, z \in ImageSizes, r \in AspectRatios,
        b \in OptionalStrings, m \in OptionalStrings : SvCallFigure(j, z, r, b, m)
  \/ \E o \in JsonOutcomes : SvSettle(o)
  \/ \E o \in FigureOutcomes : SvSettleFigure(o)

InitService == Init /\ panel = "service"
SpecService == InitService /\ [][NextService]_vars

\* ------------------------------------------------------------- Editor
EdFrame == panel = "editor" /\ UNCHANGED <<panel, caVars, jfVars, fcVars, svCall, glVars, apVars>>

EdItemIds == {edHistory[k].id : k \in 1..Len(edHistory)}

\* App: onJournalChange(journal)
EdSetJournal(j) ==
  /\ targetJournal' = j
  /\ ev' = NoEvent
  /\ UNCHANGED <<now, edVars>>
  /\ EdFrame

\* onChange of the textarea: setInputText(e.target.value)
EdSetInputText(s) ==
  /\ edInputText' = s
  /\ ev' = NoEvent
  /\ UNCHANGED <<now, targetJournal, edAnalysisType, edIsLoading, edHistory,
                 edChatSessions, edChatInputs, edAnalyze, edSends, edItemCount>>
  /\ EdFrame

\* the analysis type buttons: setAnalysisType(t)
EdSetAnalysisType(t) ==
  /\ edAnalysisType' = t
  /\ ev' = NoEvent
  /\ UNCHANGED <<now, targetJournal, edInputText, edIsLoading, edHistory,
                 edChatSessions, edChatInputs, edAnalyze, edSends, edItemCount>>
  /\ EdFrame

\* if (!inputText.trim()) return;
EdAnalyzeGuard == Trim(edInputText) = <<>>

\* handleAnalyze, to its await
EdHandleAnalyze ==
  /\ ev' = IF IsBlank(edInputText) THEN Event("edHandleAnalyze", TRUE) ELSE NoEvent
  /\ IF EdAnalyzeGuard
       THEN UNCHANGED <<edIsLoading, edAnalyze, edItemCount>>
       ELSE /\ edIsLoading' = TRUE
            /\ edAnalyze' = [pc |-> "await", text |-> edInputText,
                             type |-> edAnalysisType, journal |-> targetJournal]
            /\ edItemCount' = edItemCount + 1
  /\ UNCHANGED <<now, targetJournal, edInputText, edAnalysisType, edHistory,
                 edChatSessions, edChatInputs, edSends>>
  /\ EdFrame

\* the Run Analysis button: disabled={isLoading || !inputText.trim()}
EdClickAnalyze ==
  /\ ~(edIsLoading \/ Trim(edInputText) = <<>>)
  /\ edItemCount < MaxItems
  /\ EdHandleAnalyze

\* handleAnalyze called with a blank text (the button is disabled then: a
\* direct call)
EdCallAnalyzeBlank ==
  /\ IsBlank(edInputText)
  /\ EdHandleAnalyze

\* A mutation of EdClosure: the state as it is when the response arrives.
EdClosureNow ==
  [text |-> edInputText, type |-> edAnalysisType, journal |-> targetJournal]

\* inputText, analysisType and targetJournal as handleAnalyze reads them after
\* its await: those of the render that called it
EdClosure ==
  [text |-> edAnalyze.text, type |-> edAnalyze.type, journal |-> edAnalyze.journal]

\* handleAnalyze, after its await: the new item is prepended.
\* serial is history only: the number of the analysis that made the item.
EdAnalyzeReturn(outcome) ==
  /\ edAnalyze.pc = "await"
  /\ LET newItem == [id |-> now, type |-> EdClosure.type, input |-> EdClosure.text,
                     output |-> AnalyzeManuscriptText(outcome), chatMessages |-> <<>>,
                     isChatOpen |-> FALSE, targetJournal |-> EdClosure.journal,
                     serial |-> edItemCount]
     IN edHistory' = <<newItem>> \o edHistory
  /\ edIsLoading' = FALSE
  /\ edAnalyze' = NoCall
  /\ ev' = NoEvent
  /\ UNCHANGED <<now, targetJournal, edInputText, edAnalysisType, edChatSessions,
                 edChatInputs, edSends, edItemCount>>
  /\ EdFrame

\* A mutation of EdCleared: the session handles are kept.
EdClearedKeepSessions == <<<<>>, edChatSessions>>

\* setHistory([]); chatSessions.current.clear()
EdCleared == <<<<>>, <<>>>>

\* clearHistory (the Clear button shows when the history is not empty)
EdClearHistory(confirmed) ==
  /\ Len(edHistory) > 0
  /\ IF confirmed
       THEN /\ edHistory' = EdCleared[1]
            /\ edChatSessions' = EdCleared[2]
       ELSE UNCHANGED <<edHistory, edChatSessions>>
  /\ ev' = Event("edClearHistory", confirmed)
  /\ UNCHANGED <<now, targetJournal, edInputText, edAnalysisType, edIsLoading,
                 edChatInputs, edAnalyze, edSends, edItemCount>>
  /\ EdFrame

\* A mutation of EdToggled: every item is flipped.
EdToggledAll(h, itemId) ==
  [k \in 1..Len(h) |-> [h[k] EXCEPT !.isChatOpen = ~h[k].isChatOpen]]

\* prev.map(item => item.id === itemId ? {...item, isChatOpen: !item.isChatOpen} : item)
EdToggled(h, itemId) ==
  [k \in 1..Len(h) |->
     IF h[k].id = itemId THEN [h[k] EXCEPT !.isChatOpen = ~h[k].isChatOpen] ELSE h[k]]

\* the first item of the map that initializes the session of itemId (0: none)
EdSessionSource(h, itemId) ==
  LET hits == {k \in 1..Len(h) : h[k].id = itemId /\ ~h[k].isChatOpen}
  IN IF itemId \in DOMAIN edChatSessions \/ hits = {} THEN 0
     ELSE CHOOSE k \in hits : \A j \in hits : k <= j

\* chatSessions.current.set(itemId, session)
MapSet(f, key, val) ==
  [x \in DOMAIN f \cup {key} |-> IF x = key THEN val ELSE f[x]]

\* toggleChat(itemId)
EdToggleChat(itemId) ==
  /\ itemId \in EdItemIds
  /\ LET k == EdSessionSource(edHistory, itemId)
     IN edChatSessions' =
          IF k = 0 THEN edChatSessions
          ELSE MapSet(edChatSessions, itemId,
                 CreateRefinementChat(edHistory[k].input, edHistory[k].output,
                                      edHistory[k].type, edHistory[k].targetJournal))
  /\ edHistory' = EdToggled(edHistory, itemId)
  /\ ev' = NoEvent
  /\ UNCHANGED <<now, targetJournal, edInputText, edAnalysisType, edIsLoading,
                 edChatInputs, edAnalyze, edSends, edItemCount>>
  /\ EdFrame

\* onChange of the input of the k-th item's open discussion: setChatInputs
EdSetChatInput(k, s) ==
  /\ k \in 1..Len(edHistory)
  /\ edHistory[k].isChatOpen
  /\ edChatInputs' = [edChatInputs EXCEPT ![edHistory[k].id] = s]
  /\ ev' = NoEvent
  /\ UNCHANGED <<now, targetJournal, edInputText, edAnalysisType, edIsLoading,
                 edHistory, edChatSessions, edAnalyze, edSends, edItemCount>>
  /\ EdFrame

\* item.id === itemId ? {...item, chatMessages: [...item.chatMessages, m]} : item
EdAppendMsg(h, itemId, m) ==
  [k \in 1..Len(h) |->
     IF h[k].id = itemId THEN [h[k] EXCEPT !.chatMessages = Append(@, m)] ELSE h[k]]

\* the chunk update: the messages with id aiMsgId of the items with id itemId
EdSetText(h, itemId, id, text) ==
  [k \in 1..Len(h) |->
     IF h[k].id = itemId THEN [h[k] EXCEPT !.chatMessages = SetTextById(@, id, text)]
                         ELSE h[k]]

\* the update at the end of the stream
EdStopStreaming(h, itemId, id) ==
  [k \in 1..Len(h) |->
     IF h[k].id = itemId THEN [h[k] EXCEPT !.chatMessages = StopStreamingById(@, id)]
                         ELSE h[k]]

\* A mutation of EdSendGuard: no check of the input.
EdSendGuardNoBlank(itemId) == itemId \notin DOMAIN edChatSessions

\* if (!input?.trim()) return; ... if (!session) return;
EdSendGuard(itemId) ==
  Trim(edChatInputs[itemId]) = <<>> \/ itemId \notin DOMAIN edChatSessions

\* handleSendChat(itemId), to its await.  from is history only: the serial of
\* the item whose discussion the call came from.
EdHandleSendChat(itemId, from) ==
  /\ ev' = IF IsBlank(edChatInputs[itemId]) THEN Event("edHandleSendChat", TRUE)
                                            ELSE NoEvent
  /\ IF EdSendGuard(itemId)
       THEN UNCHANGED <<edHistory, edChatInputs, edSends>>
       ELSE LET input == edChatInputs[itemId]
                n == Len(edSends) + 1
                userMsg == Msg(now, "user", input, FALSE, 0)
                aiMsgId == now + 1
            IN /\ edHistory' = EdAppendMsg(EdAppendMsg(edHistory, itemId, userMsg),
                                  itemId, Msg(aiMsgId, "model", <<>>, TRUE, n))
               /\ edChatInputs' = [edChatInputs EXCEPT ![itemId] = <<>>]
               /\ edSends' = Append(edSends,
                     [pc |-> "stream", itemId |-> itemId, aiMsgId |-> aiMsgId,
                      fullText |-> <<>>, received |-> <<>>,
                      session |-> edChatSessions[itemId], from |-> from])
  /\ UNCHANGED <<now, targetJournal, edInputText, edAnalysisType, edIsLoading,
                 edChatSessions, edAnalyze, edItemCount>>
  /\ EdFrame

\* Enter in the input of the k-th item's open discussion
EdPressEnterChat(k) ==
  /\ k \in 1..Len(edHistory)
  /\ edHistory[k].isChatOpen
  /\ IsBlank(edChatInputs[edHistory[k].id]) \/ Len(edSends) < MaxSends
  /\ EdHandleSendChat(edHistory[k].id, edHistory[k].serial)

\* the send button of the k-th item's open discussion:
\* disabled={!chatInputs[item.id]?.trim()}
EdClickSendChat(k) ==
  /\ k \in 1..Len(edHistory)
  /\ edHistory[k].isChatOpen
  /\ Trim(edChatInputs[edHistory[k].id]) # <<>>
  /\ Len(edSends) < MaxSends
  /\ EdHandleSendChat(edHistory[k].id, edHistory[k].serial)

\* A handleSendChat invocation that has returned: its locals are gone.
EdReturned ==
  [pc |-> "done", itemId |-> 0, aiMsgId |-> 0, fullText |-> <<>>, received |-> <<>>,
   session |-> 0, from |-> 0]

\* history: the non-empty chunks the Editor's open streams have delivered
EdChunkCount == SumLen(edSends, Len(edSends))

\* one iteration of for await (const chunk of resultStream)
EdChunk(i, c) ==
  /\ i \in 1..Len(edSends)
  /\ edSends[i].pc = "stream"
  /\ EdChunkCount < MaxChunks
  /\ LET full == IF c # <<>> THEN CaAccumulate(edSends[i].fullText, c)
                              ELSE edSends[i].fullText
     IN /\ edSends' = [edSends EXCEPT ![i].fullText = full,
                          ![i].received = IF c # <<>> THEN Append(@, c) ELSE @]
        /\ edHistory' = IF c # <<>>
                          THEN EdSetText(edHistory, edSends[i].itemId,
                                         edSends[i].aiMsgId, full)
                          ELSE edHistory
  /\ ev' = NoEvent
  /\ UNCHANGED <<now, targetJournal, edInputText, edAnalysisType, edIsLoading,
                 edChatSessions, edChatInputs, edAnalyze, edItemCount>>
  /\ EdFrame

\* the stream ends: the placeholder stops streaming
EdStreamEnd(i) ==
  /\ i \in 1..Len(edSends)
  /\ edSends[i].pc = "stream"
  /\ edSends' = [edSends EXCEPT ![i] = EdReturned]
  /\ edHistory' = EdStopStreaming(edHistory, edSends[i].itemId, edSends[i].aiMsgId)
  /\ ev' = NoEvent
  /\ UNCHANGED <<now, targetJournal, edInputText, edAnalysisType, edIsLoading,
                 edChatSessions, edChatInputs, edAnalyze, edItemCount>>
  /\ EdFrame

EdErrorText == <<"Error generating response.">>

\* sendMessageStream or the stream throws: catch appends the error message
EdStreamFail(i) ==
  /\ i \in 1..Len(edSends)
  /\ edSends[i].pc = "stream"
  /\ edSends' = [edSends EXCEPT ![i] = EdReturned]
  /\ edHistory' = EdAppendMsg(edHistory, edSends[i].itemId,
                              Msg(now, "model", EdErrorText, FALSE, 0))
  /\ ev' = NoEvent
  /\ UNCHANGED <<now, targetJournal, edInputText, edAnalysisType, edIsLoading,
                 edChatSessions, edChatInputs, edAnalyze, edItemCount>>
  /\ EdFrame

\* The Editor with the journal and the analysis type left as they are; every
\* analysis request gets a text back (the service never throws).
NextEditor ==
  \/ Tick
  \/ \E s \in TypedTexts : EdSetInputText(s)
  \/ EdClickAnalyze
  \/ EdCallAnalyzeBlank
  \/ EdAnalyzeReturn("text")
  \/ \E b \in BOOLEAN : EdClearHistory(b)
  \/ \E id \in 1..MaxNow : EdToggleChat(id)
  \/ \E k \in 1..MaxItems, s \in TypedTexts : EdSetChatInput(k, s)
  \/ \E k \in 1..MaxItems : EdPressEnterChat(k)
  \/ \E k \in 1..MaxItems : EdClickSendChat(k)
  \/ \E i \in 1..MaxSends, c \in ChunkTexts : EdChunk(i, c)
  \/ \E i \in 1..MaxSends : EdStreamEnd(i)
  \/ \E i \in 1..MaxSends : EdStreamFail(i)

InitEditor == Init /\ panel = "editor"

\* The Editor without the sends of its discussions: analyses, the journal
\* selector, the history and the opening of discussions.
NextAnalysis ==
  \/ Tick
  \/ \E s \in TypedTexts : EdSetInputText(s)
  \/ \E t \in AnalysisTypes : EdSetAnalysisType(t)
  \/ \E j \in Journals : EdSetJournal(j)
  \/ EdClickAnalyze
  \/ EdCallAnalyzeBlank
  \/ \E o \in ApiOutcomes : EdAnalyzeReturn(o)
  \/ \E b \in BOOLEAN : EdClearHistory(b)
  \/ \E id \in 1..MaxNow : EdToggleChat(id)

SpecAnalysis == InitEditor /\ [][NextAnalysis]_vars
SpecEditor == InitEditor /\ [][NextEditor]_vars

\* ------------------------------------------------------------- JournalFinder
JfFrame ==
  /\ panel = "journal"
  /\ UNCHANGED <<panel, now, targetJournal, caVars, edVars, fcVars, svCall, glVars, apVars>>

JfModes == {"DISCOVER", "CHECK"}

\* the mode buttons: setMode(m)
JfSetMode(m) ==
  /\ jfMode' = m
  /\ ev' = NoEvent
  /\ UNCHANGED <<jfTitle, jfAbstract, jfTargetJournal, jfSuggestions, jfEvaluation,
                 jfIsLoading, jfHasSearched, jfCall>>
  /\ JfFrame

\* onChange of the title input: setTitle(e.target.value)
JfSetTitle(s) ==
  /\ jfTitle' = s
  /\ ev' = NoEvent
  /\ UNCHANGED <<jfMode, jfAbstract, jfTargetJournal, jfSuggestions, jfEvaluation,
                 jfIsLoading, jfHasSearched, jfCall>>
  /\ JfFrame

\* onChange of the abstract input: setAbstract(e.target.value)
JfSetAbstract(s) ==
  /\ jfAbstract' = s
  /\ ev' = NoEvent
  /\ UNCHANGED <<jfMode, jfTitle, jfTargetJournal, jfSuggestions, jfEvaluation,
                 jfIsLoading, jfHasSearched, jfCall>>
  /\ JfFrame

\* onChange of the target journal input (shown in CHECK mode)
JfSetTargetJournal(s) ==
  /\ jfMode = "CHECK"
  /\ jfTargetJournal' = s
  /\ ev' = NoEvent
  /\ UNCHANGED <<jfMode, jfTitle, jfAbstract, jfSuggestions, jfEvaluation,
                 jfIsLoading, jfHasSearched, jfCall>>
  /\ JfFrame

\* the inputs with which a handleAction is a submission of empty input
JfBlankInput ==
  IsBlank(jfTitle) \/ IsBlank(jfAbstract) \/ (jfMode = "CHECK" /\ IsBlank(jfTargetJournal))

\* handleAction, to its await or to its return.  In CHECK mode the target
\* journal is tested inside the try, after setIsLoading(true) and
\* setHasSearched(true); the finally then sets isLoading to false.
JfHandleAction ==
  /\ ev' = IF JfBlankInput THEN Event("jfHandleAction", TRUE) ELSE NoEvent
  /\ IF Trim(jfTitle) = <<>> \/ Trim(jfAbstract) = <<>>
       THEN UNCHANGED <<jfIsLoading, jfHasSearched, jfCall>>
       ELSE /\ jfHasSearched' = TRUE
            /\ IF jfMode = "CHECK" /\ Trim(jfTargetJournal) = <<>>
                 THEN jfIsLoading' = FALSE /\ UNCHANGED jfCall
                 ELSE /\ jfIsLoading' = TRUE
                      /\ jfCall' = [pc |-> "await", mode |-> jfMode]
  /\ UNCHANGED <<jfMode, jfTitle, jfAbstract, jfTargetJournal, jfSuggestions,
                 jfEvaluation>>
  /\ JfFrame

\* the action button:
\* disabled={isLoading || !title || !abstract || (mode === 'CHECK' && !targetJournal)}
JfClickAction ==
  /\ ~(jfIsLoading \/ jfTitle = <<>> \/ jfAbstract = <<>>
        \/ (jfMode = "CHECK" /\ jfTargetJournal = <<>>))
  /\ JfHandleAction

\* handleAction called with an empty input while nothing loads (the button is
\* disabled when a field is empty: a direct call)
JfCallActionBlank ==
  /\ ~jfIsLoading
  /\ JfBlankInput
  /\ JfHandleAction

\* handleAction, after its await: the result is stored; a call that threw
\* would be logged by the catch; the finally sets isLoading to false
JfReturn(outcome) ==
  /\ jfCall.pc = "await"
  /\ LET r == IF jfCall.mode = "DISCOVER" THEN SuggestTargetJournals(outcome)
                                         ELSE EvaluateJournalFit(outcome)
     IN IF r.raised THEN UNCHANGED <<jfSuggestions, jfEvaluation>>
        ELSE IF jfCall.mode = "DISCOVER"
          THEN jfSuggestions' = r.value /\ jfEvaluation' = Null
          ELSE jfEvaluation' = r.value /\ jfSuggestions' = List(<<>>)
  /\ jfIsLoading' = FALSE
  /\ jfCall' = NoCall
  /\ ev' = NoEvent
  /\ UNCHANGED <<jfMode, jfTitle, jfAbstract, jfTargetJournal, jfHasSearched>>
  /\ JfFrame

NextJournal ==
  \/ \E m \in JfModes : JfSetMode(m)
  \/ \E s \in Texts : JfSetTitle(s)
  \/ \E s \in Texts : JfSetAbstract(s)
  \/ \E s \in Texts : JfSetTargetJournal(s)
  \/ JfClickAction
  \/ JfCallActionBlank
  \/ \E o \in JsonOutcomes : JfReturn(o)

InitJournal == Init /\ panel = "journal"
SpecJournal == InitJournal /\ [][NextJournal]_vars

\* ------------------------------------------------------------- FigureCheck
FcFrame ==
  /\ panel = "figure"
  /\ UNCHANGED <<panel, now, targetJournal, caVars, edVars, jfVars, svCall, glVars, apVars>>

\* Message (the timestamp is shown nowhere and read by nothing)
FcMsg(id, role, text) == [id |-> id, role |-> role, text |-> text]

\* The images a user uploads or pastes.
Uploads == {1}
QuickPrompts == {<<"Signaling pathway schematic (Receptor -> Kinase -> TF)">>}
FcLoadedText == <<"Loaded figure from ">>
FcRequestText == <<"(Requesting analysis)">>
FcUpdatedText == <<"Figure updated. You can Toggle to Original to compare.">>
FcGeneratedText == <<"Generated figure displayed.">>
FcDiscardedText == <<"Discarded edits. Back to original.">>

\* activeImage = isViewingOriginal ? originalImage : latestImage
FcActiveImage == IF fcIsViewingOriginal THEN fcOriginalImage ELSE fcLatestImage

\* hasEdits = originalImage && latestImage && originalImage !== latestImage
FcHasEdits ==
  fcOriginalImage # NoImage /\ fcLatestImage # NoImage /\ fcOriginalImage # fcLatestImage

\* onChange of the textarea: setInput(e.target.value)
FcSetInput(s) ==
  /\ fcInput' = s
  /\ ev' = NoEvent
  /\ UNCHANGED <<fcOriginalImage, fcLatestImage, fcIsViewingOriginal, fcImageSize,
                 fcMessages, fcIsLoading, fcCall>>
  /\ FcFrame

\* the resolution selector, shown while no image is displayed
FcSetImageSize(z) ==
  /\ FcActiveImage = NoImage
  /\ fcImageSize' = z
  /\ ev' = NoEvent
  /\ UNCHANGED <<fcOriginalImage, fcLatestImage, fcIsViewingOriginal, fcMessages,
                 fcInput, fcIsLoading, fcCall>>
  /\ FcFrame

\* loadImage, from an upload or a paste
FcLoadImage(img) ==
  /\ Len(fcMessages) < MaxMessages
  /\ fcOriginalImage' = img
  /\ fcLatestImage' = img
  /\ fcIsViewingOriginal' = FALSE
  /\ fcImageSize' = "1K"
  /\ fcMessages' = Append(fcMessages, FcMsg(now, "model", FcLoadedText))
  /\ ev' = NoEvent
  /\ UNCHANGED <<fcInput, fcIsLoading, fcCall>>
  /\ FcFrame

\* the Original / Edited buttons, shown when there are edits
FcSetViewingOriginal(b) ==
  /\ FcHasEdits
  /\ fcIsViewingOriginal' = b
  /\ ev' = NoEvent
  /\ UNCHANGED <<fcOriginalImage, fcLatestImage, fcImageSize, fcMessages, fcInput,
                 fcIsLoading, fcCall>>
  /\ FcFrame

\* A mutation of FcSendGuard: isLoading is not tested.
FcSendGuardNoLoading(userText) == userText = <<>> /\ FcActiveImage = NoImage

\* if ((!userText && !activeImage) || isLoading) return;
FcSendGuard(userText) == (userText = <<>> /\ FcActiveImage = NoImage) \/ fcIsLoading

\* handleSend(overrideText), to its await; an absent overrideText is the
\* empty text
FcHandleSend(overrideText) ==
  /\ ev' = IF overrideText = <<>> /\ IsBlank(fcInput) THEN Event("fcHandleSend", TRUE)
                                                     ELSE NoEvent
  /\ LET userText == IF overrideText # <<>> THEN overrideText ELSE Trim(fcInput)
     IN IF FcSendGuard(userText)
          THEN UNCHANGED <<fcMessages, fcInput, fcIsLoading, fcCall>>
          ELSE /\ fcMessages' = Append(fcMessages,
                     FcMsg(now, "user", IF userText # <<>> THEN userText ELSE FcRequestText))
               /\ fcInput' = <<>>
               /\ fcIsLoading' = TRUE
               /\ fcCall' = [pc |-> "await", prompt |-> userText, journal |-> targetJournal,
                             imageSize |-> fcImageSize, activeImage |-> FcActiveImage,
                             originalImage |-> fcOriginalImage,
                             model |-> FigureModel(fcImageSize, FcActiveImage # NoImage)]
  /\ UNCHANGED <<fcOriginalImage, fcLatestImage, fcIsViewingOriginal, fcImageSize>>
  /\ FcFrame

\* a send appends up to three messages
FcRoom == fcIsLoading \/ Len(fcMessages) + 3 <= MaxMessages

\* handleKeyDown: Enter without Shift calls handleSend()
FcPressEnter ==
  /\ FcRoom \/ (IsBlank(fcInput) /\ FcActiveImage = NoImage)
  /\ FcHandleSend(<<>>)

\* the send button: disabled={!input.trim() || isLoading}
FcClickSend ==
  /\ ~(Trim(fcInput) = <<>> \/ fcIsLoading)
  /\ FcRoom
  /\ FcHandleSend(<<>>)

\* a quick prompt, shown while there is no message and no image
FcClickQuickPrompt(qp) ==
  /\ fcMessages = <<>> /\ FcActiveImage = NoImage
  /\ FcHandleSend(qp)

\* handleSend, after its await.  activeImage and originalImage are the values
\* of the render that called handleSend.
FcReturn(outcome) ==
  /\ fcCall.pc = "await"
  /\ LET result == GenerateOrEditFigure(outcome, fcCall.journal,
                                        fcCall.activeImage # NoImage)
         aiMsg == FcMsg(now + 1, "model", result.text)
     IN IF result.modifiedImage # NoImage
          THEN /\ fcLatestImage' = result.modifiedImage
               /\ fcOriginalImage' = IF fcCall.originalImage = NoImage
                                       THEN result.modifiedImage ELSE fcOriginalImage
               /\ fcIsViewingOriginal' = FALSE
               /\ fcMessages' = fcMessages \o
                    <<aiMsg, FcMsg(now + 2, "model",
                                   IF fcCall.activeImage # NoImage THEN FcUpdatedText
                                                                   ELSE FcGeneratedText)>>
          ELSE /\ fcMessages' = Append(fcMessages, aiMsg)
               /\ UNCHANGED <<fcOriginalImage, fcLatestImage, fcIsViewingOriginal>>
  /\ fcIsLoading' = FALSE
  /\ fcCall' = NoCall
  /\ ev' = NoEvent
  /\ UNCHANGED <<fcImageSize, fcInput>>
  /\ FcFrame

\* A mutation of FcResetGuard: the answer to the confirmation is not read.
FcResetGuardUnasked(confirmed) == fcOriginalImage # NoImage

\* if (originalImage && window.confirm(...))
FcResetGuard(confirmed) == fcOriginalImage # NoImage /\ confirmed

\* handleReset (the button shows when there are edits)
FcHandleReset(confirmed) ==
  /\ FcHasEdits
  /\ confirmed => Len(fcMessages) < MaxMessages
  /\ IF FcResetGuard(confirmed)
       THEN /\ fcLatestImage' = fcOriginalImage
            /\ fcIsViewingOriginal' = FALSE
            /\ fcMessages' = Append(fcMessages, FcMsg(now, "model", FcDiscardedText))
       ELSE UNCHANGED <<fcLatestImage, fcIsViewingOriginal, fcMessages>>
  /\ ev' = Event("fcHandleReset", confirmed)
  /\ UNCHANGED <<fcOriginalImage, fcImageSize, fcInput, fcIsLoading, fcCall>>
  /\ FcFrame

FooterEditingFlash ==
  "Editing Mode: Using Gemini 2.5 Flash Image (Nano Banana) for pixel-level edits."
FooterGenerationPro ==
  "Generation Mode: Using Gemini 3 Pro Image (High Res / Publication Quality)"
FooterGenerationFlash == "Generation Mode: Using Gemini 2.5 Flash Image (Fast Draft)"

\* A mutation of GetFooterText: the active image is not looked at.
GetFooterTextBySize ==
  IF fcImageSize = "2K" THEN FooterGenerationPro ELSE FooterGenerationFlash

\* getFooterText
GetFooterText ==
  IF FcActiveImage # NoImage THEN FooterEditingFlash
  ELSE IF fcImageSize = "2K" THEN FooterGenerationPro
  ELSE FooterGenerationFlash

NextFigure ==
  \/ Tick
  \/ \E s \in TypedTexts : FcSetInput(s)
  \/ \E z \in ImageSizes : FcSetImageSize(z)
  \/ \E img \in Uploads : FcLoadImage(img)
  \/ \E b \in BOOLEAN : FcSetViewingOriginal(b)
  \/ FcPressEnter
  \/ FcClickSend
  \/ \E qp \in QuickPrompts : FcClickQuickPrompt(qp)
  \/ \E o \in FigureOutcomes : FcReturn(o)
  \/ \E b \in BOOLEAN : FcHandleReset(b)

InitFigure == Init /\ panel = "figure"
SpecFigure == InitFigure /\ [][NextFigure]_vars

\* ------------------------------------------------------------- Guidelines
GlFrame ==
  /\ panel = "guidelines"
  /\ ev' = NoEvent
  /\ UNCHANGED <<panel, now, caVars, edVars, jfVars, fcVars, svCall, apVars>>

\* The names the journal selector and the custom journal input of the Sidebar
\* give to onJournalChange; the input gives the empty name when it is cleared.
GlJournals == Journals \cup {""}

\* fetchGuidelines up to its await: setIsLoading(true), then the request
GlFetchStart(journal) ==
  /\ glIsLoading' = TRUE
  /\ glFetches' = Append(glFetches, [journal |-> journal, serial |-> glStarted + 1])
  /\ glStarted' = glStarted + 1

\* The body of the effect: if (targetJournal) fetchGuidelines()
GlEffect(journal) ==
  IF journal # "" THEN GlFetchStart(journal)
  ELSE UNCHANGED <<glIsLoading, glFetches, glStarted>>

\* The effect as it runs when the component is mounted.
GlMount ==
  /\ ~glMounted
  /\ glStarted < MaxFetches
  /\ glMounted' = TRUE
  /\ GlEffect(targetJournal)
  /\ UNCHANGED <<targetJournal, glGuidelines>>
  /\ GlFrame

\* onJournalChange(j) with a new name: App renders Guidelines with the new
\* prop and the effect, which depends on [targetJournal], runs again.
GlSetJournal(j) ==
  /\ glMounted
  /\ j # targetJournal
  /\ j # "" => glStarted < MaxFetches
  /\ targetJournal' = j
  /\ GlEffect(j)
  /\ UNCHANGED <<glMounted, glGuidelines>>
  /\ GlFrame

RemoveAt(seq, k) == [i \in 1..(Len(seq) - 1) |-> IF i < k THEN seq[i] ELSE seq[i + 1]]

\* fetchGuidelines after its await, for the k-th of the calls in flight:
\* setGuidelines(data); setIsLoading(false).  Were getJournalGuidelines to
\* throw, the two lines would not run.
GlReturn(k, outcome) ==
  /\ k \in 1..Len(glFetches)
  /\ LET r == GetJournalGuidelines(outcome)
     IN IF r.raised THEN UNCHANGED <<glGuidelines, glIsLoading>>
        ELSE /\ glGuidelines' = r.value
             /\ glIsLoading' = FALSE
  /\ glFetches' = RemoveAt(glFetches, k)
  /\ UNCHANGED <<targetJournal, glMounted, glStarted>>
  /\ GlFrame

NextGuidelines ==
  \/ GlMount
  \/ \E j \in GlJournals : GlSetJournal(j)
  \/ \E k \in 1..MaxFetches, o \in JsonOutcomes : GlReturn(k, o)

InitGuidelines == Init /\ panel = "guidelines"
SpecGuidelines == InitGuidelines /\ [][NextGuidelines]_vars

\* ------------------------------------------------------------- App
ApFrame ==
  /\ panel = "app"
  /\ ev' = NoEvent
  /\ UNCHANGED <<panel, now, caVars, edVars, jfVars, fcVars, svCall, glVars, apStudio>>

\* The mount effect: checkApiKey to its await, or to its end when
\* window.aistudio.hasSelectedApiKey is not there.
ApMount ==
  /\ apCheck = "start"
  /\ IF apStudio
       THEN apCheck' = "await" /\ UNCHANGED hasApiKey
       ELSE apCheck' = "done" /\ hasApiKey' = TRUE
  /\ UNCHANGED <<targetJournal, activeTab, apSelects, apSelected>>
  /\ ApFrame

\* checkApiKey after its await: setHasApiKey(hasKey)
ApCheckReturn(hasKey) ==
  /\ apCheck = "await"
  /\ apCheck' = "done"
  /\ hasApiKey' = hasKey
  /\ UNCHANGED <<targetJournal, activeTab, apSelects, apSelected>>
  /\ ApFrame

\* handleSelectKey to its await; the 'Select API Key' button is on the
\* 'API Key Required' screen, which shows while hasApiKey is false.
ApHandleSelectKey ==
  /\ apCheck # "start"
  /\ ~hasApiKey
  /\ apSelects < MaxSelects
  /\ apSelects' = IF apStudio THEN apSelects + 1 ELSE apSelects
  /\ UNCHANGED <<targetJournal, hasApiKey, activeTab, apCheck, apSelected>>
  /\ ApFrame

\* handleSelectKey after its await: setHasApiKey(true)
ApSelectKeyReturn ==
  /\ apSelects > 0
  /\ apSelects' = apSelects - 1
  /\ hasApiKey' = TRUE
  /\ apSelected' = TRUE
  /\ UNCHANGED <<targetJournal, activeTab, apCheck>>
  /\ ApFrame

\* Sidebar: onTabChange(tab); the Sidebar is part of the main interface
ApSetActiveTab(tab) ==
  /\ hasApiKey
  /\ activeTab' = tab
  /\ UNCHANGED <<targetJournal, hasApiKey, apCheck, apSelects, apSelected>>
  /\ ApFrame

\* Sidebar: onJournalChange(j)
ApSetTargetJournal(j) ==
  /\ hasApiKey
  /\ targetJournal' = j
  /\ UNCHANGED <<hasApiKey, activeTab, apCheck, apSelects, apSelected>>
  /\ ApFrame

NextApp ==
  \/ ApMount
  \/ \E b \in BOOLEAN : ApCheckReturn(b)
  \/ ApHandleSelectKey
  \/ ApSelectKeyReturn
  \/ \E t \in AppTabs : ApSetActiveTab(t)
  \/ \E j \in GlJournals : ApSetTargetJournal(j)

InitApp == Init /\ panel = "app"
SpecApp == InitApp /\ [][NextApp]_vars

NextChat ==
  \/ Tick
  \/ \E s \in TypedTexts : CaSetInput(s)
  \/ CaClickSend
  \/ CaPressEnter
  \/ \E i \in 1..MaxSends, c \in ChunkTexts : CaChunk(i, c)
  \/ \E i \in 1..MaxSends : CaStreamEnd(i)
  \/ \E i \in 1..MaxSends : CaStreamFail(i)
  \/ \E b \in BOOLEAN : CaClearChat(b)

InitChat == Init /\ panel = "chat"
SpecChat == InitChat /\ [][NextChat]_vars

\* The conversations and the service: a behaviour runs one of the two panels
\* that converse, or calls the functions of the service.
InitText == Init /\ panel \in {"chat", "editor", "service"}
NextText == NextChat \/ NextEditor \/ NextService
SpecText == InitText /\ [][NextText]_vars

\* ------------------------------------------------------------- properties
\* the ChatAssistant sends whose stream is open
CaOpen == {i \in 1..Len(caSends) : caSends[i].pc = "stream"}
\* the Editor sends whose stream is open
EdOpen == {i \in 1..Len(edSends) : edSends[i].pc = "stream"}

RECURSIVE Concat(_)
Concat(chunks) == IF chunks = <<>> THEN <<>> ELSE Head(chunks) \o Concat(Tail(chunks))

\* C1: in the ChatAssistant at most one sendMessageStream call is outstanding
\* at any time: a second send does not start while a reply is streaming.
C1_OneOutstanding == Cardinality(CaOpen) <= 1

\* C2: in the Editor no second response stream starts for an item while one
\* is streaming for it: two open streams never write to the same item.
C2_OneStreamPerItem ==
  \A i, j \in EdOpen : i # j => edSends[i].itemId # edSends[j].itemId

\* C3: while a reply streams, the text of its placeholder is the
\* concatenation, in arrival order, of the non-empty chunks received so far.
C3_PlaceholderIsConcat ==
  /\ \A i \in CaOpen : \A k \in 1..Len(caMessages) :
       caMessages[k].src = i => caMessages[k].text = Concat(caSends[i].received)
  /\ \A i \in EdOpen : \A j \in 1..Len(edHistory) :
       \A k \in 1..Len(edHistory[j].chatMessages) :
         edHistory[j].chatMessages[k].src = i
           => edHistory[j].chatMessages[k].text = Concat(edSends[i].received)

\* what a service function returns when its request fails
FailureValue(fn) ==
  CASE fn = "analyzeManuscriptText" -> Str(AnalyzeErrorText)
    [] fn = "generateCoverLetter" -> Str(CoverErrorText)
    [] fn = "generateOrEditFigure" ->
         Obj([text |-> FigureErrorText, modifiedImage |-> NoImage])
    [] fn = "suggestTargetJournals" -> List(<<>>)
    [] OTHER -> Null

Last(seq) == seq[Len(seq)]

\* C4 (as claimed): every service function answers a failed request with a
\* fixed error string in place of its result, and throws nothing.
C4_ErrorStringAlways ==
  svCall.pc = "done" /\ svCall.failed =>
    /\ ~svCall.result.raised
    /\ IF svCall.fn = "generateOrEditFigure"
         THEN svCall.result.value.value[1].text = FigureErrorText
         ELSE /\ svCall.result.value.type = "string"
              /\ svCall.result.value.value \in {AnalyzeErrorText, CoverErrorText}

\* C4 (amended): no failed request makes a call throw; analyzeManuscriptText,
\* generateCoverLetter and generateOrEditFigure answer it with their fixed error
\* text, getJournalGuidelines and evaluateJournalFit with null,
\* suggestTargetJournals with an empty list, and a failed chat stream appends
\* the fixed error message to its conversation.
C4_FailureHandled ==
  [][/\ svCall'.pc = "done" /\ svCall'.failed =>
          /\ ~svCall'.result.raised
          /\ svCall'.result.value = FailureValue(svCall'.fn)
     /\ \A i \in 1..MaxSends : CaStreamFail(i) =>
          /\ Len(caMessages') = Len(caMessages) + 1
          /\ Last(caMessages').text = CaErrorText
          /\ ~caIsLoading'
     /\ \A i \in 1..MaxSends : EdStreamFail(i) =>
          \A k \in 1..Len(edHistory) :
            edHistory[k].id = edSends[i].itemId =>
              Last(edHistory'[k].chatMessages).text = EdErrorText]_vars

C4_Witness ==
  /\ svCall.pc = "done" /\ svCall.failed
  /\ svCall.fn = "suggestTargetJournals"
  /\ svCall.result.value = List(<<>>)

\* C5: Editor.handleAnalyze, ChatAssistant.handleSend and Editor.handleSendChat
\* change nothing when their input is empty or white space only: no message is
\* appended, no loading flag is set and no external call is started.
C5_BlankIsNoOp ==
  [][/\ ev'.op = "caHandleSend" => UNCHANGED <<caMessages, caInput, caIsLoading, caSends>>
     /\ ev'.op = "edHandleAnalyze" =>
          UNCHANGED <<edHistory, edInputText, edIsLoading, edAnalyze, edItemCount>>
     /\ ev'.op = "edHandleSendChat" => UNCHANGED <<edHistory, edChatInputs, edSends>>]_vars

C5_Witness ==
  /\ ev.op = "edHandleSendChat"
  /\ \E k \in 1..Len(edHistory) :
       edHistory[k].isChatOpen /\ edChatInputs[edHistory[k].id] = <<" ">>

\* C6 (as claimed): FigureCheck.handleSend called with a blank input appends
\* no message and makes no API call, whether or not an image is loaded.
C6_BlankIsNoOp ==
  [][ev'.op = "fcHandleSend" =>
       UNCHANGED <<fcMessages, fcInput, fcIsLoading, fcCall>>]_vars

\* C6 (amended): FigureCheck.handleSend called with a blank input appends no
\* message and makes no API call when no image is displayed or a request is
\* loading; with an image displayed and nothing loading it appends the user
\* message "(Requesting analysis)" and calls the API with that image.
C6_BlankWithoutImageIsNoOp ==
  [][ev'.op = "fcHandleSend" =>
       IF FcActiveImage = NoImage \/ fcIsLoading
         THEN UNCHANGED <<fcMessages, fcInput, fcIsLoading, fcCall>>
         ELSE /\ fcMessages' = Append(fcMessages, FcMsg(now, "user", FcRequestText))
              /\ fcIsLoading'
              /\ fcCall'.pc = "await" /\ fcCall'.activeImage = FcActiveImage]_vars

C6_Witness ==
  /\ ev.op = "fcHandleSend"
  /\ FcActiveImage # NoImage
  /\ fcIsLoading /\ fcCall.prompt # <<>>
  /\ fcInput = <<" ">>

\* C7: handleAction called with a blank title, a blank abstract or, in CHECK
\* mode, a blank target journal makes no API call and leaves isLoading,
\* hasSearched, suggestions and evaluation as they were.
C7_BlankIsNoOp ==
  [][ev'.op = "jfHandleAction" =>
       UNCHANGED <<jfIsLoading, jfHasSearched, jfSuggestions, jfEvaluation, jfCall>>]_vars

\* C8: a confirmed clearHistory leaves the history and the session lookup
\* empty; a declined one leaves both as they were.
C8_ClearHistory ==
  [][ev'.op = "edClearHistory" =>
       IF ev'.flag THEN edHistory' = <<>> /\ DOMAIN edChatSessions' = {}
                   ELSE UNCHANGED <<edHistory, edChatSessions>>]_vars

C8_Witness ==
  /\ ev = Event("edClearHistory", TRUE)
  /\ edHistory = <<>>
  /\ EdOpen # {}

\* what C9 asks of a toggle of itemId: the items with that id have isChatOpen
\* inverted and nothing else changes
C9Flipped(itemId) ==
  /\ Len(edHistory') = Len(edHistory)
  /\ \A k \in 1..Len(edHistory) :
       edHistory'[k] = IF edHistory[k].id = itemId
                         THEN [edHistory[k] EXCEPT !.isChatOpen = ~edHistory[k].isChatOpen]
                         ELSE edHistory[k]

C10_OwnItemOnly ==
  \A i \in EdOpen : \A j \in 1..Len(edHistory) :
    \A k \in 1..Len(edHistory[j].chatMessages) :
      edHistory[j].chatMessages[k].src = i => edHistory[j].serial = edSends[i].from

\* C11: generateOrEditFigure uses the Pro image model exactly when imageSize
\* is '2K' and no input image is supplied (base64Image and mimeType both
\* present), every request with an input image uses the Flash model, and the
\* imageConfig (aspectRatio, imageSize) is sent exactly on the Pro path.
C11_ModelSelection ==
  svCall.pc # "idle" /\ svCall.fn = "generateOrEditFigure" =>
    LET a == svCall.args
        r == svCall.request
        withImage == a.base64Image # "" /\ a.mimeType # ""
    IN /\ r.model \in {PRO_IMAGE_MODEL, FLASH_IMAGE_MODEL}
       /\ r.model = PRO_IMAGE_MODEL <=> (a.imageSize = "2K" /\ ~withImage)
       /\ withImage => r.model = FLASH_IMAGE_MODEL /\ r.inlineData
       /\ r.config = IF r.model = PRO_IMAGE_MODEL
                       THEN {[aspectRatio |-> a.aspectRatio, imageSize |-> a.imageSize]}
                       ELSE {}

C11_Witness ==
  /\ svCall.pc = "done" /\ svCall.fn = "generateOrEditFigure"
  /\ svCall.args.imageSize = "2K"
  /\ svCall.args.base64Image # "" /\ svCall.args.mimeType # ""
  /\ svCall.request.model = FLASH_IMAGE_MODEL


\* C12: the loading flag of the Guidelines panel covers every request in
\* flight: while a call of fetchGuidelines awaits its response, isLoading is
\* true, also when the journal changed again before the first response.
C12_LoadingCoversFetches == glFetches # <<>> => glIsLoading

\* C13: 2K is never requested for an edit: a call of generateOrEditFigure
\* that carries an input image is made with imageSize '1K'.
C13_EditsAre1K ==
  fcCall.pc = "await" /\ fcCall.activeImage # NoImage => fcCall.imageSize = "1K"

\* C14: once an image has been loaded (upload, PDF page, paste), originalImage
\* stays that image until the next load, whenever the responses to earlier
\* requests arrive.
C14_LoadedOriginalStays ==
  [][(fcOriginalImage \in Uploads /\ ~(\E img \in Uploads : FcLoadImage(img)))
       => fcOriginalImage' = fcOriginalImage]_vars

\* C15: a confirmed handleReset makes latestImage the original image, leaves
\* originalImage as it is, shows the latest image (so that there are no edits
\* any more) and appends exactly one model message; handleReset changes
\* nothing when there is no original image or the confirmation is declined.
C15_Reset ==
  [][ev'.op = "fcHandleReset" =>
       IF ev'.flag /\ fcOriginalImage # NoImage
         THEN /\ fcLatestImage' = fcOriginalImage
              /\ fcOriginalImage' = fcOriginalImage
              /\ ~fcIsViewingOriginal'
              /\ ~FcHasEdits'
              /\ Len(fcMessages') = Len(fcMessages) + 1
              /\ SubSeq(fcMessages', 1, Len(fcMessages)) = fcMessages
              /\ Last(fcMessages').role = "model"
              /\ UNCHANGED <<fcImageSize, fcInput, fcIsLoading, fcCall>>
         ELSE UNCHANGED fcVars]_vars

C15_Witness ==
  /\ ev = Event("fcHandleReset", TRUE)
  /\ fcOriginalImage \in Uploads
  /\ fcLatestImage = fcOriginalImage
  /\ Last(fcMessages).text = FcDiscardedText

\* a declined reset of an edited image
C15_WitnessDeclined ==
  /\ ev = Event("fcHandleReset", FALSE)
  /\ FcHasEdits

\* the model a footer text names
FooterModel(text) ==
  IF text = FooterGenerationPro THEN PRO_IMAGE_MODEL ELSE FLASH_IMAGE_MODEL

\* C16: the model the footer names in a state of the figure panel is the
\* model generateOrEditFigure selects for a request sent from that state.
C16_FooterNamesModel ==
  [][fcCall.pc = "idle" /\ fcCall'.pc = "await" =>
       fcCall'.model = FooterModel(GetFooterText)]_vars

C16_Witness ==
  /\ fcCall.pc = "await"
  /\ fcCall.activeImage # NoImage /\ fcCall.imageSize = "2K"
  /\ fcCall.model = FLASH_IMAGE_MODEL

\* the style the claim gives to a journal name
C17Style(journal) ==
  LET j == ToLowerCase(Spell(journal))
  IN IF \/ Includes(j, NeedleJournalOfCellBiology)
        \/ Includes(j, NeedleJcb)
        \/ Includes(j, NeedleCurrentBiology) THEN DataDrivenStyle
     ELSE IF Includes(j, NeedleNature) \/ Includes(j, NeedleScience) THEN HighImpactStyle
     ELSE IF Includes(j, NeedleCell) \/ Includes(j, NeedleMolecularCell) THEN MechanisticStyle
     ELSE DefaultStyle

\* C17: getJournalStyleParams gives the data-driven style to a name that
\* contains 'journal of cell biology', 'jcb' or 'current biology', the
\* high-impact style to one that contains 'nature' or 'science', the
\* mechanistic style to one that contains 'cell' or 'molecular cell', and the
\* default style to any other name.
C17_StyleByName ==
  svCall.pc # "idle" /\ svCall.fn \in StyledServices =>
    svCall.request.style = C17Style(svCall.journal)

\* C18: once a call of handleSelectKey has completed, hasApiKey is true and
\* stays true, also when the check started at mount resolves afterwards.
C18_KeyStays == apSelected => hasApiKey

\* C19: a history item of the Editor records the input text, the analysis
\* type and the target journal that were sent in its analysis request, also
\* when the user edits the text, switches the type or changes the journal
\* while the request is in flight; a new item is prepended, so that the
\* history is newest first.
C19_ItemRecordsRequest ==
  [][edAnalyze.pc = "await" /\ edAnalyze'.pc = "idle" =>
       /\ Len(edHistory') = Len(edHistory) + 1
       /\ SubSeq(edHistory', 2, Len(edHistory')) = edHistory
       /\ edHistory'[1].input = edAnalyze.text
       /\ edHistory'[1].type = edAnalyze.type
       /\ edHistory'[1].targetJournal = edAnalyze.journal
       /\ \A k \in 2..Len(edHistory') : edHistory'[1].serial > edHistory'[k].serial]_vars

\* an item whose text, type and journal all differ from the panel's when
\* its response arrived
C19_Witness ==
  /\ Len(edHistory) = 2
  /\ edHistory[1].serial = 2 /\ edHistory[2].serial = 1
  /\ edHistory[1].input # edInputText
  /\ edHistory[1].type # edAnalysisType
  /\ edHistory[1].targetJournal # targetJournal

\* the session createRefinementChat makes from what the item stores
C20SessionOf(item) ==
  CreateRefinementChat(item.input, item.output, item.type, item.targetJournal)

\* C20: the refinement session of a history item is created at most once, on
\* the first opening of the item's discussion, from the input, output, type
\* and targetJournal the item stores; closing and reopening the discussion or
\* changing the target journal never replaces it, and only clearHistory
\* removes it.
C20_SessionOnce ==
  [][/\ \A id \in DOMAIN edChatSessions :
          \/ ev'.op = "edClearHistory" /\ ev'.flag
          \/ id \in DOMAIN edChatSessions' /\ edChatSessions'[id] = edChatSessions[id]
     /\ \A id \in DOMAIN edChatSessions' \ DOMAIN edChatSessions :
          /\ EdToggleChat(id)
          /\ \A k \in 1..Len(edHistory) :
               edHistory[k].id = id =>
                 /\ ~edHistory[k].isChatOpen /\ edHistory'[k].isChatOpen
                 /\ edChatSessions'[id] = C20SessionOf(edHistory[k])
     /\ \A k \in 1..Len(edHistory') :
          edHistory'[k].isChatOpen =>
            /\ edHistory'[k].id \in DOMAIN edChatSessions'
            /\ edChatSessions'[edHistory'[k].id] = C20SessionOf(edHistory'[k])]_vars

\* the outcome of a figure request that fails
C21Failure == [throw |-> TRUE, text |-> <<>>, image |-> NoImage]

\* C21: when a figure request fails, originalImage, latestImage and
\* isViewingOriginal are unchanged, exactly one model message with the fixed
\* error text is appended after the user's message, and isLoading is false.
C21_FigureFailure ==
  [][FcReturn(C21Failure) =>
       /\ UNCHANGED <<fcOriginalImage, fcLatestImage, fcIsViewingOriginal>>
       /\ Len(fcMessages') = Len(fcMessages) + 1
       /\ SubSeq(fcMessages', 1, Len(fcMessages)) = fcMessages
       /\ Last(fcMessages').role = "model"
       /\ Last(fcMessages').text = FigureErrorText
       /\ \E k \in 1..Len(fcMessages) : fcMessages[k].role = "user"
       /\ ~fcIsLoading']_vars

\* a failed edit of a generated image
C21_Witness ==
  /\ fcCall.pc = "idle" /\ ~fcIsLoading
  /\ fcMessages # <<>>
  /\ Last(fcMessages).text = FigureErrorText
  /\ fcLatestImage \in GenImages

\* C22: after a chat send has finished, by the end of its stream or by a
\* failure, no message of its conversation is left with isStreaming true:
\* a message that streams is the placeholder of a send whose stream is open.
C22_NoStreamingLeft ==
  /\ \A k \in 1..Len(caMessages) :
       caMessages[k].isStreaming => caMessages[k].src \in CaOpen
  /\ \A j \in 1..Len(edHistory) : \A k \in 1..Len(edHistory[j].chatMessages) :
       edHistory[j].chatMessages[k].isStreaming =>
         edHistory[j].chatMessages[k].src \in EdOpen

\* the ids of the messages of a conversation are pairwise distinct
C23Distinct(msgs) ==
  \A k, j \in 1..Len(msgs) : k # j => msgs[k].id # msgs[j].id

\* the messages of msgs that differ in after are placeholders of send i
C23OnlyOwn(msgs, after, i) ==
  /\ Len(after) = Len(msgs)
  /\ \A k \in 1..Len(msgs) : after[k] # msgs[k] => msgs[k].src = i

\* C23: whatever non-decreasing values Date.now() takes, the message ids of a
\* conversation are pairwise distinct, and a chunk of a stream changes only
\* the placeholder its own send created.
C23_ChunksOwnPlaceholder ==
  [][/\ C23Distinct(caMessages')
     /\ \A j \in 1..Len(edHistory') : C23Distinct(edHistory'[j].chatMessages)
     /\ \A i \in 1..MaxSends, c \in ChunkTexts :
          /\ CaChunk(i, c) => C23OnlyOwn(caMessages, caMessages', i)
          /\ EdChunk(i, c) =>
               \A j \in 1..Len(edHistory) :
                 C23OnlyOwn(edHistory[j].chatMessages, edHistory'[j].chatMessages, i)]_vars

\* C24: after a confirmed clearChat the conversation holds the 'Conversation
\* cleared' message alone, the chunks, the completion and the failure of a
\* stream that was in flight when the chat was cleared add and change
\* nothing, and a later send uses the new session.
C24_ClearedChat ==
  [][/\ ev'.op = "caClearChat" /\ ev'.flag =>
          Len(caMessages') = 1 /\ caMessages'[1].text = CaClearedText
     /\ \A i \in 1..MaxSends :
          /\ \/ CaStreamEnd(i)
             \/ CaStreamFail(i)
             \/ \E c \in ChunkTexts : CaChunk(i, c)
          /\ caSends[i].session # caSession
          => UNCHANGED caMessages
     /\ Len(caSends') > Len(caSends) => Last(caSends').session = caSession]_vars

\* C25: after a confirmed clearHistory the history stays empty until the user
\* starts a new analysis: a step that follows the clear and completes the
\* analysis that was in flight, or delivers a chunk, the end or the failure of
\* a refinement stream that was in flight, leaves the history empty.
C25_ClearedHistory ==
  [][/\ ev = Event("edClearHistory", TRUE)
     /\ \/ edAnalyze.pc = "await" /\ edAnalyze'.pc = "idle"
        \/ \E i \in 1..MaxSends :
             \/ EdStreamEnd(i)
             \/ EdStreamFail(i)
             \/ \E c \in ChunkTexts : EdChunk(i, c)
     => edHistory' = <<>>]_vars
====
